---- MODULE Spec2Model ----
(***************************************************************************)
(* Healthcare staff dashboard (src/healthcare_dashboard.py): the stored    *)
(* records, the handlers that change them, the status classification of    *)
(* the table views, the dashboard counts and the e-mail batches.           *)
(*                                                                         *)
(* Text is a sequence of one-character strings, so that what the program   *)
(* does with text (strptime, isoformat, SQLite's TEXT comparison, split)   *)
(* is computed and not assumed.                                            *)
(***************************************************************************)
EXTENDS Integers, Sequences, FiniteSets, TLC

(***************************************************************************)
(* Bounds of the model.                                                    *)
(***************************************************************************)
MaxStaff == 2
MaxShifts == 2
MaxItems == 2
MaxConcerns == 2
MaxFeedback == 2

(***************************************************************************)
(* Characters and text.                                                    *)
(***************************************************************************)
Ord(c) ==
    CASE c = " " -> 32
      [] c = "-" -> 45
      [] c = "0" -> 48 [] c = "1" -> 49 [] c = "2" -> 50 [] c = "3" -> 51
      [] c = "4" -> 52 [] c = "5" -> 53 [] c = "6" -> 54 [] c = "7" -> 55
      [] c = "8" -> 56 [] c = "9" -> 57
      [] c = ":" -> 58
      [] c = "N" -> 78
      [] c = "x" -> 120
      [] OTHER -> 0

IsDigit(c) == Ord(c) >= 48 /\ Ord(c) <= 57
DigitVal(c) == Ord(c) - 48
DigitChar(n) == <<"0", "1", "2", "3", "4", "5", "6", "7", "8", "9">>[n + 1]

\* SQL NULL, as a value no entry field can hold.
NULL == <<"NULL">>

\* Python truthiness of a fetched TEXT column: None and '' are false.
Truthy(s) == s # NULL /\ s # <<>>

\* `x or None` when binding a parameter.
OrNone(s) == IF s = <<>> THEN NULL ELSE s

\* SQLite's BINARY collation on TEXT: bytewise, a proper prefix is smaller.
RECURSIVE TextLess(_, _)
TextLess(a, b) ==
    IF b = <<>> THEN FALSE
    ELSE IF a = <<>> THEN TRUE
    ELSE IF Ord(Head(a)) # Ord(Head(b)) THEN Ord(Head(a)) < Ord(Head(b))
    ELSE TextLess(Tail(a), Tail(b))

TextLeq(a, b) == a = b \/ TextLess(a, b)

\* x BETWEEN lo AND hi on TEXT values.
TextBetween(x, lo, hi) == TextLeq(lo, x) /\ TextLeq(x, hi)

(***************************************************************************)
(* datetime.date: proleptic Gregorian calendar.                            *)
(***************************************************************************)
IsLeap(y) == y % 4 = 0 /\ (y % 100 # 0 \/ y % 400 = 0)

DaysInMonth(y, m) ==
    IF m = 2 THEN (IF IsLeap(y) THEN 29 ELSE 28)
    ELSE IF m \in {4, 6, 9, 11} THEN 30 ELSE 31

DaysBeforeYear(y) ==
    (y - 1) * 365 + ((y - 1) \div 4) - ((y - 1) \div 100) + ((y - 1) \div 400)

RECURSIVE DaysBeforeMonth(_, _)
DaysBeforeMonth(y, m) ==
    IF m = 1 THEN 0 ELSE DaysBeforeMonth(y, m - 1) + DaysInMonth(y, m - 1)

\* date.toordinal()
ToOrdinal(dt) == DaysBeforeYear(dt.y) + DaysBeforeMonth(dt.y, dt.m) + dt.d

\* date.fromordinal(n)
FromOrdinal(n) ==
    LET n0   == n - 1
        n400 == n0 \div 146097
        r400 == n0 % 146097
        n100 == r400 \div 36524
        r100 == r400 % 36524
        n4   == r100 \div 1461
        r4   == r100 % 1461
        n1   == r4 \div 365
        r1   == r4 % 365
        year == n400 * 400 + 1 + n100 * 100 + n4 * 4 + n1
    IN  IF n1 = 4 \/ n100 = 4
        THEN [y |-> year - 1, m |-> 12, d |-> 31]
        ELSE LET month == CHOOSE k \in 1..12 :
                              /\ DaysBeforeMonth(year, k) <= r1
                              /\ r1 < DaysBeforeMonth(year, k) + DaysInMonth(year, k)
             IN  [y |-> year, m |-> month, d |-> r1 - DaysBeforeMonth(year, month) + 1]

\* (a - b).days
DaysBetween(a, b) == ToOrdinal(a) - ToOrdinal(b)

\* d + timedelta(days=n)
PlusDays(dt, n) == FromOrdinal(ToOrdinal(dt) + n)

\* Zero-padded decimal of n on w digits ("%04d", "%02d").
RECURSIVE ZeroPad(_, _)
ZeroPad(n, w) ==
    IF w = 0 THEN <<>> ELSE ZeroPad(n \div 10, w - 1) \o <<DigitChar(n % 10)>>

\* date.isoformat(): always YYYY-MM-DD.
IsoFormat(dt) == ZeroPad(dt.y, 4) \o <<"-">> \o ZeroPad(dt.m, 2) \o <<"-">> \o ZeroPad(dt.d, 2)

(***************************************************************************)
(* datetime.strptime(s, "%Y-%m-%d"): the directive patterns are            *)
(*   %Y  \d\d\d\d                                                          *)
(*   %m  1[0-2]|0[1-9]|[1-9]                                               *)
(*   %d  3[01]|[12]\d|0[1-9]|[1-9]| [1-9]                                  *)
(* and the whole text must be consumed; the date must then exist.          *)
(***************************************************************************)
ValueError == [err |-> TRUE]

IsNonZeroDigit(c) == IsDigit(c) /\ c # "0"

MonthField(t) ==
    IF Len(t) = 2 /\ t[1] = "1" /\ t[2] \in {"0", "1", "2"} THEN 10 + DigitVal(t[2])
    ELSE IF Len(t) = 2 /\ t[1] = "0" /\ IsNonZeroDigit(t[2]) THEN DigitVal(t[2])
    ELSE IF Len(t) = 1 /\ IsNonZeroDigit(t[1]) THEN DigitVal(t[1])
    ELSE 0

DayField(t) ==
    IF Len(t) = 2 /\ t[1] = "3" /\ t[2] \in {"0", "1"} THEN 30 + DigitVal(t[2])
    ELSE IF Len(t) = 2 /\ t[1] \in {"1", "2"} /\ IsDigit(t[2])
         THEN 10 * DigitVal(t[1]) + DigitVal(t[2])
    ELSE IF Len(t) = 2 /\ t[1] \in {"0", " "} /\ IsNonZeroDigit(t[2]) THEN DigitVal(t[2])
    ELSE IF Len(t) = 1 /\ IsNonZeroDigit(t[1]) THEN DigitVal(t[1])
    ELSE 0

Strptime(s) ==
    IF Len(s) < 8 \/ Len(s) > 10 THEN ValueError
    ELSE IF ~(\A i \in 1..4 : IsDigit(s[i])) \/ s[5] # "-" THEN ValueError
    ELSE LET mlen == IF s[7] = "-" THEN 1 ELSE 2
             mtxt == SubSeq(s, 6, 5 + mlen)
             dtxt == SubSeq(s, 7 + mlen, Len(s))
             yy   == 1000 * DigitVal(s[1]) + 100 * DigitVal(s[2])
                       + 10 * DigitVal(s[3]) + DigitVal(s[4])
             mm   == MonthField(mtxt)
             dd   == DayField(dtxt)
         IN  IF s[6 + mlen] # "-" \/ mm = 0 \/ dd = 0 THEN ValueError
             ELSE IF yy < 1 \/ dd > DaysInMonth(yy, mm) THEN ValueError
             ELSE [y |-> yy, m |-> mm, d |-> dd]

Parses(s) == Strptime(s) # ValueError

(***************************************************************************)
(* Thresholds written in the handlers.                                     *)
(***************************************************************************)
DashboardShiftDays == 7
DashboardCertDays == 60
StatusDueSoonDays == 60
NotifyCertDays == 60
NotifyShiftDays == 7
TrainingDueSoonDays == 60
DefaultSmtpPort == 587

(***************************************************************************)
(* State.  The tables are functions from AUTOINCREMENT ids to rows; the    *)
(* *_seq counters are the largest id ever given out.  The *_tree values    *)
(* are the rows a Treeview shows.  role and certification_name are stored  *)
(* and shown but never read by a decision, and are left out.               *)
(***************************************************************************)
VARIABLES
    today,              \* what date.today() returns during the session
    staff, staff_seq,   \* table staff
    selected_staff_id,  \* 0 stands for None
    staff_tree,         \* rows of the staff Treeview
    staff_saved,        \* the name and email the last save_staff that reported
                        \* success was given (<<>>: none yet)
    training_tree,      \* rows of the training Treeview
    shifts, shift_seq,  \* table shifts
    shifts_tree,        \* rows of the shifts Treeview
    inventory, inv_seq, \* table inventory
    inventory_tree,     \* rows of the inventory Treeview
    inv_found,          \* the id the last lookup of an item by name gave
                        \* (0: no record has the name)
    safety, safety_seq, \* table safety
    safety_tree,        \* rows of the safety Treeview
    safety_read,        \* the Treeview row the last safety handler read: the id
                        \* and the status it showed (id 0: no row was focused),
                        \* and whether the handler before it was a double click
                        \* on the same concern
    feedback, feedback_seq, \* table feedback
    feedback_tree,      \* rows of the feedback Treeview
    summary_vars,       \* the numbers shown on the dashboard
    smtp_host, smtp_port, smtp_user, smtp_pass,
    settings_win,       \* whether the e-mail settings window is open
    sent_log,           \* the send_email calls of the last handler, in order, each
                        \* with how it ended ("ok" or the exception's text)
    batch,              \* the rows the last notify handler selected
    messagebox,         \* the dialog the last handler showed
    last_op             \* the last handler that ran

staff_vars == <<staff, staff_seq, selected_staff_id, staff_tree, staff_saved>>
shift_vars == <<shifts, shift_seq, shifts_tree>>
inv_vars == <<inventory, inv_seq, inventory_tree, inv_found>>
other_tables == <<safety, safety_seq, safety_tree, safety_read,
                  feedback, feedback_seq, feedback_tree>>
smtp_vars == <<smtp_host, smtp_port, smtp_user, smtp_pass, settings_win>>

vars == <<today, staff_vars, training_tree, shift_vars, inv_vars, other_tables,
          summary_vars, smtp_vars, sent_log, batch, messagebox, last_op>>

NoDialog == [kind |-> "none"]
ShowError(title, message) == [kind |-> "showerror", title |-> title, message |-> message]
ShowInfo(title, message) == [kind |-> "showinfo", title |-> title, message |-> message]
ShowWarning(title, message) ==
    [kind |-> "showwarning", title |-> title, message |-> message]

\* The ids of a table in rowid order, which is the order of an unordered SELECT.
RECURSIVE IdsUpTo(_, _)
IdsUpTo(table, n) ==
    IF n = 0 THEN <<>>
    ELSE IF n \in DOMAIN table THEN Append(IdsUpTo(table, n - 1), n)
    ELSE IdsUpTo(table, n - 1)

RowIds(table, seq) == IdsUpTo(table, seq)

\* INSERT INTO table: the next AUTOINCREMENT id.
Insert(table, seq, row) ==
    [id \in DOMAIN table \cup {seq + 1} |-> IF id = seq + 1 THEN row ELSE table[id]]

\* DELETE FROM table WHERE id=?
Delete(table, gone) == [id \in DOMAIN table \ {gone} |-> table[id]]

(***************************************************************************)
(* Certification status of the staff table view.                           *)
(***************************************************************************)
CertStatusOffByOne(cert_expiry, t) ==
    IF ~Truthy(cert_expiry) THEN "N/A"
    ELSE IF ~Parses(cert_expiry) THEN "Unknown"
    ELSE LET delta == DaysBetween(Strptime(cert_expiry), t)
         IN  IF delta < 0 THEN "Expired"
             ELSE IF delta < StatusDueSoonDays THEN "Due soon"
             ELSE "Valid"

CertStatus(cert_expiry, t) ==
    IF ~Truthy(cert_expiry) THEN "N/A"
    ELSE IF ~Parses(cert_expiry) THEN "Unknown"
    ELSE LET delta == DaysBetween(Strptime(cert_expiry), t)
         IN  IF delta < 0 THEN "Expired"
             ELSE IF delta <= StatusDueSoonDays THEN "Due soon"
             ELSE "Valid"

\* `x or ''` when a row is put in a Treeview.
OrEmpty(s) == IF s = NULL THEN <<>> ELSE s

refresh_staff_table(staff_, seq_, t) ==
    LET ids == RowIds(staff_, seq_)
    IN  [i \in 1..Len(ids) |->
            [id       |-> ids[i],
             name     |-> staff_[ids[i]].name,
             email    |-> staff_[ids[i]].email,
             expiry   |-> OrEmpty(staff_[ids[i]].certification_expiry),
             training |-> OrEmpty(staff_[ids[i]].training_due),
             status   |-> CertStatus(staff_[ids[i]].certification_expiry, t)]]

\* The status of the training view, written a second time in the source.
TrainingStatus(cert_expiry, t) ==
    IF ~Truthy(cert_expiry) THEN "N/A"
    ELSE IF ~Parses(cert_expiry) THEN "Unknown"
    ELSE LET days_remaining == DaysBetween(Strptime(cert_expiry), t)
         IN  IF days_remaining < 0 THEN "Expired"
             ELSE IF days_remaining <= TrainingDueSoonDays THEN "Due soon"
             ELSE "Valid"

TrainingRows(staff_, seq_, t) ==
    LET ids == RowIds(staff_, seq_)
    IN  [i \in 1..Len(ids) |->
            [id     |-> ids[i],
             name   |-> staff_[ids[i]].name,
             expiry |-> OrEmpty(staff_[ids[i]].certification_expiry),
             status |-> TrainingStatus(staff_[ids[i]].certification_expiry, t)]]

(***************************************************************************)
(* The dashboard's aggregate queries.                                      *)
(***************************************************************************)
\* certification_expiry IS NOT NULL AND certification_expiry <> ''
\*   AND certification_expiry <= ?
CertDueWhere(row, limit) ==
    /\ row.certification_expiry # NULL
    /\ row.certification_expiry # <<>>
    /\ TextLeq(row.certification_expiry, limit)

\* quantity <= min_quantity OR (expiry IS NOT NULL AND expiry <> '' AND expiry < ?)
LowInventoryWhere(row, today_iso) ==
    \/ row.quantity <= row.min_quantity
    \/ /\ row.expiry # NULL
       /\ row.expiry # <<>>
       /\ TextLess(row.expiry, today_iso)

refresh_dashboard(staff_, shifts_, safety_, inventory_, feedback_, t) ==
    LET today_iso      == IsoFormat(t)
        week_ahead     == IsoFormat(PlusDays(t, DashboardShiftDays))
        due_date_limit == IsoFormat(PlusDays(t, DashboardCertDays))
    IN  [staff_count     |-> Cardinality(DOMAIN staff_),
         upcoming_shifts |-> Cardinality({id \in DOMAIN shifts_ :
                                 TextBetween(shifts_[id].shift_date, today_iso, week_ahead)}),
         pending_safety  |-> Cardinality({id \in DOMAIN safety_ :
                                 safety_[id].status = "Open"}),
         low_inventory   |-> Cardinality({id \in DOMAIN inventory_ :
                                 LowInventoryWhere(inventory_[id], today_iso)}),
         cert_due        |-> Cardinality({id \in DOMAIN staff_ :
                                 CertDueWhere(staff_[id], due_date_limit)}),
         feedback_count  |-> Cardinality(DOMAIN feedback_)]

(***************************************************************************)
(* Staff tab handlers.                                                     *)
(***************************************************************************)
\* The settings window takes the grab (grab_set): while it is open no handler
\* of the main window can be started.  A handler that sends nothing leaves an
\* empty call log.
Quiet(op) ==
    /\ ~settings_win
    /\ sent_log' = <<>>
    /\ batch' = <<>>
    /\ last_op' = op

clear_staff_form ==
    /\ selected_staff_id' = 0
    /\ messagebox' = NoDialog
    /\ Quiet("clear_staff_form")
    /\ UNCHANGED <<today, staff, staff_seq, staff_tree, staff_saved, training_tree, summary_vars>>
    /\ UNCHANGED <<smtp_vars, shift_vars, inv_vars, other_tables>>

\* "if not name or not email", on the stripped entries.
NameOnlyRequired(name, email) == name = ""

RequiredMissing(name, email) == name = "" \/ email = ""

StaffRow(name, email, cert_expiry, training_due) ==
    [name |-> name, email |-> email,
     certification_expiry |-> OrNone(cert_expiry),
     training_due |-> OrNone(training_due)]

save_staff(name, email, cert_expiry, training_due) ==
    /\ Quiet("save_staff")
    /\ UNCHANGED <<today, training_tree>>
    /\ UNCHANGED <<smtp_vars, shift_vars, inv_vars, other_tables>>
    /\ IF RequiredMissing(name, email)
       THEN /\ messagebox' = ShowError("Error", "Name and Email are required.")
            /\ UNCHANGED <<staff, staff_seq, selected_staff_id, staff_tree, staff_saved,
                           summary_vars>>
       ELSE IF cert_expiry # <<>> /\ ~Parses(cert_expiry)
       THEN /\ messagebox' = ShowError("Error", "Certification expiry must be in YYYY-MM-DD format.")
            /\ UNCHANGED <<staff, staff_seq, selected_staff_id, staff_tree, staff_saved,
                           summary_vars>>
       ELSE IF training_due # <<>> /\ ~Parses(training_due)
       THEN /\ messagebox' = ShowError("Error", "Training due must be in YYYY-MM-DD format.")
            /\ UNCHANGED <<staff, staff_seq, selected_staff_id, staff_tree, staff_saved,
                           summary_vars>>
       ELSE /\ IF selected_staff_id # 0
               THEN \* UPDATE ... WHERE id=?: no row is changed when the id is gone
                    /\ staff' = [id \in DOMAIN staff |->
                                    IF id = selected_staff_id
                                    THEN StaffRow(name, email, cert_expiry, training_due)
                                    ELSE staff[id]]
                    /\ staff_seq' = staff_seq
               ELSE /\ staff_seq < MaxStaff
                    /\ staff_seq' = staff_seq + 1
                    /\ staff' = Insert(staff, staff_seq,
                                        StaffRow(name, email, cert_expiry, training_due))
            /\ staff_tree' = refresh_staff_table(staff', staff_seq', today)
            /\ selected_staff_id' = 0
            /\ staff_saved' = [name |-> name, email |-> email]
            /\ summary_vars' = refresh_dashboard(staff', shifts, safety, inventory, feedback, today)
            /\ messagebox' = ShowInfo("Success", "Staff information saved.")

\* A double click on row i of the staff view.
on_staff_select(i) ==
    /\ i \in 1..Len(staff_tree)
    /\ selected_staff_id' = staff_tree[i].id
    /\ messagebox' = NoDialog
    /\ Quiet("on_staff_select")
    /\ UNCHANGED <<today, staff, staff_seq, staff_tree, staff_saved, training_tree, summary_vars>>
    /\ UNCHANGED <<smtp_vars, shift_vars, inv_vars, other_tables>>

\* delete_selected_staff as it would be with ON DELETE CASCADE on shifts.
DeleteStaffCascade(i, confirm) ==
    /\ Quiet("delete_selected_staff")
    /\ i \in 1..Len(staff_tree)
    /\ confirm
    /\ staff' = Delete(staff, staff_tree[i].id)
    /\ shifts' = [id \in {k \in DOMAIN shifts : shifts[k].staff_id # staff_tree[i].id}
                    |-> shifts[id]]
    /\ staff_tree' = refresh_staff_table(staff', staff_seq, today)
    /\ summary_vars' = refresh_dashboard(staff', shifts', safety, inventory, feedback, today)
    /\ messagebox' = ShowInfo("Deleted", "Staff member deleted.")
    /\ UNCHANGED <<today, staff_seq, selected_staff_id, staff_saved, training_tree,
                   shift_seq, shifts_tree>>
    /\ UNCHANGED <<smtp_vars, inv_vars, other_tables>>

\* "Delete Selected" with row i focused (i = 0: no row focused).
delete_selected_staff(i, confirm) ==
    /\ Quiet("delete_selected_staff")
    /\ UNCHANGED <<today, staff_seq, selected_staff_id, staff_saved, training_tree>>
    /\ UNCHANGED <<smtp_vars, shift_vars, inv_vars, other_tables>>
    /\ IF i = 0
       THEN /\ messagebox' = ShowWarning("Warning", "No staff selected.")
            /\ UNCHANGED <<staff, staff_tree, summary_vars>>
       ELSE /\ i \in 1..Len(staff_tree)
            /\ IF confirm
               THEN /\ staff' = Delete(staff, staff_tree[i].id)
                    /\ staff_tree' = refresh_staff_table(staff', staff_seq, today)
                    /\ summary_vars' = refresh_dashboard(staff', shifts, safety, inventory, feedback, today)
                    /\ messagebox' = ShowInfo("Deleted", "Staff member deleted.")
               ELSE /\ messagebox' = NoDialog
                    /\ UNCHANGED <<staff, staff_tree, summary_vars>>

\* The "Refresh" button of the training tab.
refresh_training_table ==
    /\ training_tree' = TrainingRows(staff, staff_seq, today)
    /\ messagebox' = NoDialog
    /\ Quiet("refresh_training_table")
    /\ UNCHANGED <<today, summary_vars, smtp_vars>>
    /\ UNCHANGED <<staff_vars, shift_vars, inv_vars, other_tables>>

(***************************************************************************)
(* E-mail settings.                                                        *)
(***************************************************************************)
\* int(text) for the texts typed here: an optional sign and decimal digits.
RECURSIVE DigitsValue(_, _)
DigitsValue(t, acc) ==
    IF t = <<>> THEN acc ELSE DigitsValue(Tail(t), 10 * acc + DigitVal(Head(t)))

AllDigits(t) == t # <<>> /\ \A i \in 1..Len(t) : IsDigit(t[i])

IsIntText(t) == AllDigits(t) \/ (Len(t) > 1 /\ t[1] = "-" /\ AllDigits(Tail(t)))

IntOf(t) ==
    IF AllDigits(t) THEN DigitsValue(t, 0) ELSE 0 - DigitsValue(Tail(t), 0)

\* The Save button of the settings window.
save_settings(host, port, user, pass) ==
    /\ settings_win
    /\ smtp_host' = host
    /\ IF ~IsIntText(port)
       THEN /\ messagebox' = ShowError("Error", "Port must be a number.")
            /\ UNCHANGED <<smtp_port, smtp_user, smtp_pass, settings_win>>
       ELSE /\ smtp_port' = IntOf(port)
            /\ smtp_user' = user
            /\ smtp_pass' = pass
            /\ settings_win' = FALSE
            /\ messagebox' = NoDialog
    /\ sent_log' = <<>>
    /\ batch' = <<>>
    /\ last_op' = "save_settings"
    /\ UNCHANGED <<today, training_tree, summary_vars>>
    /\ UNCHANGED <<staff_vars, shift_vars, inv_vars, other_tables>>

\* The settings window is closed without saving.
close_settings ==
    /\ settings_win
    /\ settings_win' = FALSE
    /\ messagebox' = NoDialog
    /\ sent_log' = <<>>
    /\ batch' = <<>>
    /\ last_op' = "close_settings"
    /\ UNCHANGED <<today, training_tree, summary_vars, smtp_host, smtp_port, smtp_user, smtp_pass>>
    /\ UNCHANGED <<staff_vars, shift_vars, inv_vars, other_tables>>

SmtpUnset == smtp_host = "" \/ smtp_user = "" \/ smtp_pass = ""

(***************************************************************************)
(* Certification reminders.  send_email either returns or raises; what it  *)
(* does for the i-th call is outcome[i], "ok" or the text of the exception.*)
(***************************************************************************)
SendOutcomes == {"ok", "Connection refused"}

\* ... WHERE certification_expiry IS NOT NULL AND certification_expiry <> ''
\*       AND certification_expiry <= ?
NotifyCertWhere(row, due_limit) ==
    /\ row.certification_expiry # NULL
    /\ row.certification_expiry # <<>>
    /\ TextLeq(row.certification_expiry, due_limit)

RECURSIVE SelectDueRows(_, _, _)
SelectDueRows(staff_, ids, due_limit) ==
    IF ids = <<>> THEN <<>>
    ELSE LET rest == SelectDueRows(staff_, Tail(ids), due_limit)
             row  == staff_[Head(ids)]
         IN  IF NotifyCertWhere(row, due_limit)
             THEN <<[id |-> Head(ids), name |-> row.name, email |-> row.email,
                     certification_expiry |-> row.certification_expiry]>> \o rest
             ELSE rest

DueStaffList(staff_, seq_, t) ==
    SelectDueRows(staff_, RowIds(staff_, seq_), IsoFormat(PlusDays(t, NotifyCertDays)))

\* The message as it would be were the expiry day itself already "expired".
CertMessageExpiredToday(row, t) ==
    LET days_remaining == DaysBetween(Strptime(row.certification_expiry), t)
    IN  IF days_remaining <= 0
        THEN [to |-> row.email, subject |-> "Certification Renewal Reminder",
              body |-> [text |-> "expired on", name |-> row.name,
                        expiry |-> row.certification_expiry]]
        ELSE [to |-> row.email, subject |-> "Certification Renewal Reminder",
              body |-> [text |-> "will expire in", name |-> row.name,
                        expiry |-> row.certification_expiry, days |-> days_remaining]]

CertMessage(row, t) ==
    LET days_remaining == DaysBetween(Strptime(row.certification_expiry), t)
    IN  IF days_remaining < 0
        THEN [to |-> row.email, subject |-> "Certification Renewal Reminder",
              body |-> [text |-> "expired on", name |-> row.name,
                        expiry |-> row.certification_expiry]]
        ELSE [to |-> row.email, subject |-> "Certification Renewal Reminder",
              body |-> [text |-> "will expire in", name |-> row.name,
                        expiry |-> row.certification_expiry, days |-> days_remaining]]

NoCalls == [calls |-> <<>>, errors |-> <<>>, raised |-> FALSE]

\* One send_email(recipient, subject, body) call and how it ended.
Call(msg, result) ==
    [to |-> msg.to, subject |-> msg.subject, body |-> msg.body, result |-> result]

\* The for loop: strptime is outside the try, send_email inside it.
RECURSIVE SendCertLoop(_, _, _, _, _)
SendCertLoop(staff_list, outcome, t, i, acc) ==
    IF i > Len(staff_list) THEN acc
    ELSE IF ~Parses(staff_list[i].certification_expiry) THEN [acc EXCEPT !.raised = TRUE]
    ELSE LET msg    == CertMessage(staff_list[i], t)
             called == [acc EXCEPT !.calls = Append(@, Call(msg, outcome[i]))]
         IN  SendCertLoop(staff_list, outcome, t, i + 1,
                 IF outcome[i] = "ok" THEN called
                 ELSE [called EXCEPT !.errors = Append(@, <<msg.to, outcome[i]>>)])

\* The loop as it would be with the try around the whole loop.
RECURSIVE SendCertLoopStops(_, _, _, _, _)
SendCertLoopStops(staff_list, outcome, t, i, acc) ==
    IF i > Len(staff_list) THEN acc
    ELSE IF ~Parses(staff_list[i].certification_expiry) THEN [acc EXCEPT !.raised = TRUE]
    ELSE LET msg    == CertMessage(staff_list[i], t)
             called == [acc EXCEPT !.calls = Append(@, Call(msg, outcome[i]))]
         IN  IF outcome[i] = "ok"
             THEN SendCertLoopStops(staff_list, outcome, t, i + 1, called)
             ELSE [called EXCEPT !.errors = Append(@, <<msg.to, outcome[i]>>)]

DispatchCertStops(staff_list, outcome, t) ==
    SendCertLoopStops(staff_list, outcome, t, 1, NoCalls)

DispatchCert(staff_list, outcome, t) ==
    SendCertLoop(staff_list, outcome, t, 1, NoCalls)

\* The dialog that ends a notify handler.
NotifyResult(done, n, error_title, info_title) ==
    IF done.raised THEN NoDialog
    ELSE IF done.errors # <<>>
    THEN [kind |-> "showerror", title |-> error_title, errors |-> done.errors]
    ELSE [kind |-> "showinfo", title |-> info_title, count |-> n]

notify_due_certifications ==
    LET staff_list == DueStaffList(staff, staff_seq, today)
    IN  /\ ~settings_win
        /\ last_op' = "notify_due_certifications"
        /\ batch' = staff_list
        /\ UNCHANGED <<today, training_tree, summary_vars, smtp_host, smtp_port,
                       smtp_user, smtp_pass>>
        /\ UNCHANGED <<staff_vars, shift_vars, inv_vars, other_tables>>
        /\ IF staff_list = <<>>
           THEN /\ messagebox' = ShowInfo("No notifications",
                                         "No staff have certifications due within 60 days.")
                /\ sent_log' = <<>>
                /\ UNCHANGED settings_win
           ELSE /\ settings_win' = SmtpUnset
                /\ IF SmtpUnset /\ smtp_host = ""
                   THEN /\ messagebox' = NoDialog
                        /\ sent_log' = <<>>
                   ELSE \E outcome \in [1..Len(staff_list) -> SendOutcomes] :
                            LET done == DispatchCert(staff_list, outcome, today)
                            IN  /\ sent_log' = done.calls
                                /\ messagebox' = NotifyResult(done, Len(staff_list),
                                                     "Notification result", "Notifications sent")

(***************************************************************************)
(* Scheduling tab.                                                         *)
(***************************************************************************)
\* text.split(":")[0]
RECURSIVE SplitHead(_)
SplitHead(t) ==
    IF t = <<>> \/ Head(t) = ":" THEN <<>> ELSE <<Head(t)>> \o SplitHead(Tail(t))

\* ORDER BY shift_date: rows are taken in rowid order and put after the rows
\* whose date is not greater.
RECURSIVE PutByDate(_, _)
PutByDate(sorted, row) ==
    IF sorted = <<>> THEN <<row>>
    ELSE IF TextLess(row.date, Head(sorted).date) THEN <<row>> \o sorted
    ELSE <<Head(sorted)>> \o PutByDate(Tail(sorted), row)

RECURSIVE ShiftRows(_, _, _)
ShiftRows(shifts_, staff_, ids) ==
    IF ids = <<>> THEN <<>>
    ELSE LET id  == ids[Len(ids)]
             row == shifts_[id]
         IN  PutByDate(ShiftRows(shifts_, staff_, SubSeq(ids, 1, Len(ids) - 1)),
                       [id    |-> id,
                        date  |-> row.shift_date,
                        type  |-> row.shift_type,
                        staff |-> IF row.staff_id \in DOMAIN staff_
                                  THEN staff_[row.staff_id].name ELSE ""])

\* The listing as an inner join with staff would give it.
ShiftsInnerJoin(shifts_, seq_, staff_) ==
    ShiftRows(shifts_, staff_,
              SelectSeq(RowIds(shifts_, seq_),
                        LAMBDA id : shifts_[id].staff_id \in DOMAIN staff_))

refresh_shifts_table(shifts_, seq_, staff_) == ShiftRows(shifts_, staff_, RowIds(shifts_, seq_))

\* add_shift as it would be were the date checked after the INSERT.
AddShiftThenValidate(date_str, shift_type, staff_selection) ==
    /\ Quiet("add_shift")
    /\ UNCHANGED <<today, training_tree>>
    /\ UNCHANGED <<staff_vars, smtp_vars, inv_vars, other_tables>>
    /\ IF date_str = <<>> \/ shift_type = "" \/ staff_selection = <<>>
       THEN /\ messagebox' = ShowError("Error", "All fields are required.")
            /\ UNCHANGED <<shift_vars, summary_vars>>
       ELSE IF ~IsIntText(SplitHead(staff_selection))
       THEN /\ messagebox' = ShowError("Error", "Invalid staff selection.")
            /\ UNCHANGED <<shift_vars, summary_vars>>
       ELSE /\ shift_seq < MaxShifts
            /\ shift_seq' = shift_seq + 1
            /\ shifts' = Insert(shifts, shift_seq,
                                [shift_date |-> date_str, shift_type |-> shift_type,
                                 staff_id |-> IntOf(SplitHead(staff_selection))])
            /\ shifts_tree' = refresh_shifts_table(shifts', shift_seq', staff)
            /\ summary_vars' = refresh_dashboard(staff, shifts', safety, inventory, feedback, today)
            /\ messagebox' = IF Parses(date_str) THEN ShowInfo("Success", "Shift added.")
                              ELSE ShowError("Error", "Date must be in YYYY-MM-DD format.")

add_shift(date_str, shift_type, staff_selection) ==
    /\ Quiet("add_shift")
    /\ UNCHANGED <<today, training_tree>>
    /\ UNCHANGED <<staff_vars, smtp_vars, inv_vars, other_tables>>
    /\ IF date_str = <<>> \/ shift_type = "" \/ staff_selection = <<>>
       THEN /\ messagebox' = ShowError("Error", "All fields are required.")
            /\ UNCHANGED <<shift_vars, summary_vars>>
       ELSE IF ~Parses(date_str)
       THEN /\ messagebox' = ShowError("Error", "Date must be in YYYY-MM-DD format.")
            /\ UNCHANGED <<shift_vars, summary_vars>>
       ELSE IF ~IsIntText(SplitHead(staff_selection))
       THEN /\ messagebox' = ShowError("Error", "Invalid staff selection.")
            /\ UNCHANGED <<shift_vars, summary_vars>>
       ELSE /\ shift_seq < MaxShifts
            /\ shift_seq' = shift_seq + 1
            /\ shifts' = Insert(shifts, shift_seq,
                                [shift_date |-> date_str, shift_type |-> shift_type,
                                 staff_id |-> IntOf(SplitHead(staff_selection))])
            /\ shifts_tree' = refresh_shifts_table(shifts', shift_seq', staff)
            /\ summary_vars' = refresh_dashboard(staff, shifts', safety, inventory, feedback, today)
            /\ messagebox' = ShowInfo("Success", "Shift added.")

\* "Delete Selected Shift" with row i focused (i = 0: no row focused).
delete_selected_shift(i, confirm) ==
    /\ Quiet("delete_selected_shift")
    /\ UNCHANGED <<today, training_tree, shift_seq>>
    /\ UNCHANGED <<staff_vars, smtp_vars, inv_vars, other_tables>>
    /\ IF i = 0
       THEN /\ messagebox' = ShowWarning("Warning", "No shift selected.")
            /\ UNCHANGED <<shifts, shifts_tree, summary_vars>>
       ELSE /\ i \in 1..Len(shifts_tree)
            /\ IF confirm
               THEN /\ shifts' = Delete(shifts, shifts_tree[i].id)
                    /\ shifts_tree' = refresh_shifts_table(shifts', shift_seq, staff)
                    /\ summary_vars' = refresh_dashboard(staff, shifts', safety, inventory,
                                                         feedback, today)
                    /\ messagebox' = ShowInfo("Deleted", "Shift deleted.")
               ELSE /\ messagebox' = NoDialog
                    /\ UNCHANGED <<shifts, shifts_tree, summary_vars>>

(***************************************************************************)
(* Shift reminders.                                                        *)
(*   SELECT s.staff_id, st.name, st.email, GROUP_CONCAT(shift_date ||      *)
(*          ' (' || shift_type || ')', '\n')                               *)
(*   FROM shifts s JOIN staff st ON s.staff_id = st.id                     *)
(*   WHERE s.shift_date BETWEEN ? AND ?                                    *)
(*   GROUP BY s.staff_id, st.name, st.email                                *)
(* The query has no ORDER BY.  GROUP_CONCAT takes the rows of a group in   *)
(* the order the scan of shifts meets them, which is rowid order (the plan *)
(* is SCAN s, SEARCH st BY rowid, temp b-tree for the GROUP BY, and that   *)
(* b-tree keeps the scan order within one key); the groups come out in key *)
(* order.                                                                  *)
(***************************************************************************)
\* The join without its WHERE clause.
ShiftJoinAnyDate(shifts_, staff_, id, lo, hi) ==
    shifts_[id].staff_id \in DOMAIN staff_

ShiftJoinWhere(shifts_, staff_, id, lo, hi) ==
    /\ shifts_[id].staff_id \in DOMAIN staff_
    /\ TextBetween(shifts_[id].shift_date, lo, hi)

RECURSIVE JoinedScan(_, _, _, _, _)
JoinedScan(shifts_, staff_, ids, lo, hi) ==
    IF ids = <<>> THEN <<>>
    ELSE LET rest == JoinedScan(shifts_, staff_, Tail(ids), lo, hi)
         IN  IF ShiftJoinWhere(shifts_, staff_, Head(ids), lo, hi)
             THEN <<Head(ids)>> \o rest ELSE rest

RECURSIVE ConcatLines(_, _, _)
ConcatLines(shifts_, scan, sid) ==
    IF scan = <<>> THEN <<>>
    ELSE LET rest == ConcatLines(shifts_, Tail(scan), sid)
             row  == shifts_[Head(scan)]
         IN  IF row.staff_id = sid
             THEN <<[date |-> row.shift_date, type |-> row.shift_type]>> \o rest
             ELSE rest

RECURSIVE GroupRows(_, _, _, _)
GroupRows(shifts_, staff_, scan, sids) ==
    IF sids = <<>> THEN <<>>
    ELSE LET rest == GroupRows(shifts_, staff_, scan, Tail(sids))
             sid  == Head(sids)
         IN  IF \E k \in 1..Len(scan) : shifts_[scan[k]].staff_id = sid
             THEN <<[staff_id   |-> sid,
                     name       |-> staff_[sid].name,
                     email      |-> staff_[sid].email,
                     shift_info |-> ConcatLines(shifts_, scan, sid)]>> \o rest
             ELSE rest

ShiftData(shifts_, shift_seq_, staff_, staff_seq_, t) ==
    GroupRows(shifts_, staff_,
              JoinedScan(shifts_, staff_, RowIds(shifts_, shift_seq_),
                         IsoFormat(t), IsoFormat(PlusDays(t, NotifyShiftDays))),
              RowIds(staff_, staff_seq_))

ShiftMessage(row) ==
    [to |-> row.email, subject |-> "Your Upcoming Shifts",
     body |-> [text |-> "schedule for the next week", name |-> row.name,
               lines |-> row.shift_info]]

RECURSIVE SendShiftLoop(_, _, _, _)
SendShiftLoop(data, outcome, i, acc) ==
    IF i > Len(data) THEN acc
    ELSE LET msg    == ShiftMessage(data[i])
             called == [acc EXCEPT !.calls = Append(@, Call(msg, outcome[i]))]
         IN  SendShiftLoop(data, outcome, i + 1,
                 IF outcome[i] = "ok" THEN called
                 ELSE [called EXCEPT !.errors = Append(@, <<msg.to, outcome[i]>>)])

DispatchShifts(data, outcome) == SendShiftLoop(data, outcome, 1, NoCalls)

notify_shifts ==
    /\ ~settings_win
    /\ last_op' = "notify_shifts"
    /\ UNCHANGED <<today, training_tree, summary_vars, smtp_host, smtp_port,
                   smtp_user, smtp_pass>>
    /\ UNCHANGED <<staff_vars, shift_vars, inv_vars, other_tables>>
    /\ settings_win' = SmtpUnset
    /\ IF SmtpUnset /\ smtp_host = ""
       THEN /\ messagebox' = NoDialog
            /\ sent_log' = <<>>
            /\ batch' = <<>>
       ELSE LET data == ShiftData(shifts, shift_seq, staff, staff_seq, today)
            IN  /\ batch' = data
                    /\ IF data = <<>>
                       THEN /\ messagebox' = ShowInfo("No upcoming shifts",
                                         "There are no upcoming shifts within the next week.")
                            /\ sent_log' = <<>>
                       ELSE \E outcome \in [1..Len(data) -> SendOutcomes] :
                                LET done == DispatchShifts(data, outcome)
                                IN  /\ sent_log' = done.calls
                                    /\ messagebox' = NotifyResult(done, Len(data),
                                                         "Email errors", "Emails sent")

(***************************************************************************)
(* Inventory tab.                                                          *)
(***************************************************************************)
\* date < date
DateLess(a, b) ==
    \/ a.y < b.y
    \/ a.y = b.y /\ a.m < b.m
    \/ a.y = b.y /\ a.m = b.m /\ a.d < b.d

InventoryStatusLowWins(qty, min_qty, expiry, t) ==
    IF qty <= min_qty THEN "Low Stock"
    ELSE IF ~Truthy(expiry) THEN "OK"
    ELSE IF ~Parses(expiry) THEN "Unknown"
    ELSE IF DateLess(Strptime(expiry), t) THEN "Expired"
    ELSE "OK"

InventoryStatus(qty, min_qty, expiry, t) ==
    LET stock == IF qty <= min_qty THEN "Low Stock" ELSE "OK"
    IN  IF ~Truthy(expiry) THEN stock
        ELSE IF ~Parses(expiry) THEN "Unknown"
        ELSE IF DateLess(Strptime(expiry), t) THEN "Expired"
        ELSE stock

refresh_inventory_table(inventory_, seq_, t) ==
    LET ids == RowIds(inventory_, seq_)
    IN  [i \in 1..Len(ids) |->
            [id     |-> ids[i],
             name   |-> inventory_[ids[i]].item_name,
             qty    |-> inventory_[ids[i]].quantity,
             min    |-> inventory_[ids[i]].min_quantity,
             expiry |-> OrEmpty(inventory_[ids[i]].expiry),
             status |-> InventoryStatus(inventory_[ids[i]].quantity,
                                        inventory_[ids[i]].min_quantity,
                                        inventory_[ids[i]].expiry, t)]]

\* SELECT id FROM inventory WHERE item_name=? ... fetchone(): 0 when there is none.
\* A lookup that finds no record.
NoneNamed(inventory_, ids, name) == 0

\* SELECT id FROM inventory WHERE item_name=? and fetchone()
RECURSIVE FirstNamed(_, _, _)
FirstNamed(inventory_, ids, name) ==
    IF ids = <<>> THEN 0
    ELSE IF inventory_[Head(ids)].item_name = name THEN Head(ids)
    ELSE FirstNamed(inventory_, Tail(ids), name)

save_inventory_item(name, qty_str, min_str, expiry_str) ==
    /\ Quiet("save_inventory_item")
    /\ UNCHANGED <<today, training_tree>>
    /\ UNCHANGED <<staff_vars, smtp_vars, shift_vars, other_tables>>
    /\ IF name = "" \/ qty_str = <<>> \/ min_str = <<>>
       THEN /\ messagebox' = ShowError("Error", "Name, quantity and minimum quantity are required.")
            /\ UNCHANGED <<inv_vars, summary_vars>>
       ELSE IF ~IsIntText(qty_str) \/ ~IsIntText(min_str)
       THEN /\ messagebox' = ShowError("Error", "Quantity and minimum quantity must be integers.")
            /\ UNCHANGED <<inv_vars, summary_vars>>
       ELSE IF expiry_str # <<>> /\ ~Parses(expiry_str)
       THEN /\ messagebox' = ShowError("Error", "Expiry must be in YYYY-MM-DD format.")
            /\ UNCHANGED <<inv_vars, summary_vars>>
       ELSE LET inv_id == FirstNamed(inventory, RowIds(inventory, inv_seq), name)
            IN  /\ inv_found' = inv_id
                /\ IF inv_id # 0
                   THEN /\ inventory' = [inventory EXCEPT ![inv_id] =
                                            [@ EXCEPT !.quantity = IntOf(qty_str),
                                                      !.min_quantity = IntOf(min_str),
                                                      !.expiry = OrNone(expiry_str)]]
                        /\ inv_seq' = inv_seq
                   ELSE /\ inv_seq < MaxItems
                        /\ inv_seq' = inv_seq + 1
                        /\ inventory' = Insert(inventory, inv_seq,
                                               [item_name |-> name,
                                                quantity |-> IntOf(qty_str),
                                                min_quantity |-> IntOf(min_str),
                                                expiry |-> OrNone(expiry_str)])
                /\ inventory_tree' = refresh_inventory_table(inventory', inv_seq', today)
                /\ summary_vars' = refresh_dashboard(staff, shifts, safety, inventory',
                                                     feedback, today)
                /\ messagebox' = ShowInfo("Success", "Inventory item saved.")

\* "Delete Selected" with row i focused (i = 0: no row focused).
delete_inventory_item(i, confirm) ==
    /\ Quiet("delete_inventory_item")
    /\ UNCHANGED <<today, training_tree, inv_seq, inv_found>>
    /\ UNCHANGED <<staff_vars, smtp_vars, shift_vars, other_tables>>
    /\ IF i = 0
       THEN /\ messagebox' = ShowWarning("Warning", "No inventory item selected.")
            /\ UNCHANGED <<inventory, inventory_tree, summary_vars>>
       ELSE /\ i \in 1..Len(inventory_tree)
            /\ IF confirm
               THEN /\ inventory' = Delete(inventory, inventory_tree[i].id)
                    /\ inventory_tree' = refresh_inventory_table(inventory', inv_seq, today)
                    /\ summary_vars' = refresh_dashboard(staff, shifts, safety, inventory',
                                                         feedback, today)
                    /\ messagebox' = ShowInfo("Deleted", "Inventory item deleted.")
               ELSE /\ messagebox' = NoDialog
                    /\ UNCHANGED <<inventory, inventory_tree, summary_vars>>

(***************************************************************************)
(* Safety tab.  A staff_id of 0 stands for None: the column is only read   *)
(* by `if staff_id:`, which takes both alike.                              *)
(***************************************************************************)
NoRow == [id |-> 0, status |-> "", twice |-> FALSE]

ReadRow(row, double_click) ==
    [id |-> row.id, status |-> row.status,
     twice |-> double_click /\ last_op = "on_safety_select" /\ safety_read.id = row.id]

\* "None", or nothing chosen, in a staff combobox of the safety or feedback form.
NoStaffChosen(staff_selection) ==
    staff_selection = <<>> \/ staff_selection = <<"N", "o", "n", "e">>

\* A row as it would be were the column's default 'Resolved'.
SafetyRowResolved(date_str, staff_id, description) ==
    [reported_date |-> date_str, staff_id |-> staff_id,
     description |-> description, status |-> "Resolved"]

\* INSERT INTO safety (reported_date, staff_id, description): status takes
\* the column's DEFAULT 'Open'.
SafetyRow(date_str, staff_id, description) ==
    [reported_date |-> date_str, staff_id |-> staff_id,
     description |-> description, status |-> "Open"]

\* ORDER BY reported_date DESC: rows are taken in rowid order and put after
\* the rows whose date is not smaller.
RECURSIVE PutByDateDesc(_, _)
PutByDateDesc(sorted, row) ==
    IF sorted = <<>> THEN <<row>>
    ELSE IF TextLess(Head(sorted).date, row.date) THEN <<row>> \o sorted
    ELSE <<Head(sorted)>> \o PutByDateDesc(Tail(sorted), row)

RECURSIVE SafetyRows(_, _, _)
SafetyRows(safety_, staff_, ids) ==
    IF ids = <<>> THEN <<>>
    ELSE LET id  == ids[Len(ids)]
             row == safety_[id]
         IN  PutByDateDesc(SafetyRows(safety_, staff_, SubSeq(ids, 1, Len(ids) - 1)),
                           [id     |-> id,
                            date   |-> row.reported_date,
                            staff  |-> IF row.staff_id \in DOMAIN staff_
                                       THEN staff_[row.staff_id].name ELSE "",
                            desc   |-> row.description,
                            status |-> row.status])

refresh_safety_table(safety_, seq_, staff_) == SafetyRows(safety_, staff_, RowIds(safety_, seq_))

add_safety_concern(date_str, staff_selection, description) ==
    /\ Quiet("add_safety_concern")
    /\ safety_read' = NoRow
    /\ UNCHANGED <<today, training_tree, feedback, feedback_seq, feedback_tree>>
    /\ UNCHANGED <<staff_vars, smtp_vars, shift_vars, inv_vars>>
    /\ IF date_str = <<>> \/ description = ""
       THEN /\ messagebox' = ShowError("Error", "Date and description are required.")
            /\ UNCHANGED <<safety, safety_seq, safety_tree, summary_vars>>
       ELSE IF ~Parses(date_str)
       THEN /\ messagebox' = ShowError("Error", "Date must be in YYYY-MM-DD format.")
            /\ UNCHANGED <<safety, safety_seq, safety_tree, summary_vars>>
       ELSE IF ~NoStaffChosen(staff_selection) /\ ~IsIntText(SplitHead(staff_selection))
       THEN /\ messagebox' = ShowError("Error", "Invalid staff selection.")
            /\ UNCHANGED <<safety, safety_seq, safety_tree, summary_vars>>
       ELSE /\ safety_seq < MaxConcerns
            /\ safety_seq' = safety_seq + 1
            /\ safety' = Insert(safety, safety_seq,
                                SafetyRow(date_str,
                                          IF NoStaffChosen(staff_selection) THEN 0
                                          ELSE IntOf(SplitHead(staff_selection)),
                                          description))
            /\ safety_tree' = refresh_safety_table(safety', safety_seq', staff)
            /\ summary_vars' = refresh_dashboard(staff, shifts, safety', inventory, feedback, today)
            /\ messagebox' = ShowInfo("Success", "Safety concern recorded.")

\* A double click that could only resolve.
AlwaysResolved(current_status) == "Resolved"

\* new_status = "Resolved" if current_status == "Open" else "Open"
ToggleStatus(current_status) ==
    IF current_status = "Open" THEN "Resolved" ELSE "Open"

\* UPDATE safety SET status=? WHERE id=?
SetStatus(safety_, sid, new_status) ==
    [id \in DOMAIN safety_ |->
        IF id = sid THEN [safety_[id] EXCEPT !.status = new_status] ELSE safety_[id]]

\* The double click as it would be without its call of refresh_dashboard.
ToggleWithoutDashboard(i) ==
    /\ Quiet("on_safety_select")
    /\ messagebox' = NoDialog
    /\ i \in 1..Len(safety_tree)
    /\ safety_read' = ReadRow(safety_tree[i], TRUE)
    /\ safety' = SetStatus(safety, safety_tree[i].id, ToggleStatus(safety_tree[i].status))
    /\ safety_tree' = refresh_safety_table(safety', safety_seq, staff)
    /\ UNCHANGED <<today, training_tree, safety_seq, feedback, feedback_seq, feedback_tree,
                   summary_vars>>
    /\ UNCHANGED <<staff_vars, smtp_vars, shift_vars, inv_vars>>

\* A double click on row i of the safety Treeview (i = 0: on no row).  The
\* status toggled is the one the Treeview row shows.
on_safety_select(i) ==
    /\ Quiet("on_safety_select")
    /\ messagebox' = NoDialog
    /\ UNCHANGED <<today, training_tree, safety_seq, feedback, feedback_seq, feedback_tree>>
    /\ UNCHANGED <<staff_vars, smtp_vars, shift_vars, inv_vars>>
    /\ IF i = 0
       THEN /\ safety_read' = NoRow
            /\ UNCHANGED <<safety, safety_tree, summary_vars>>
       ELSE /\ i \in 1..Len(safety_tree)
            /\ safety_read' = ReadRow(safety_tree[i], TRUE)
            /\ safety' = SetStatus(safety, safety_tree[i].id,
                                   ToggleStatus(safety_tree[i].status))
            /\ safety_tree' = refresh_safety_table(safety', safety_seq, staff)
            /\ summary_vars' = refresh_dashboard(staff, shifts, safety', inventory, feedback, today)

\* "Mark Resolved" with row i focused (i = 0: no row focused).
resolve_safety(i) ==
    /\ Quiet("resolve_safety")
    /\ UNCHANGED <<today, training_tree, safety_seq, feedback, feedback_seq, feedback_tree>>
    /\ UNCHANGED <<staff_vars, smtp_vars, shift_vars, inv_vars>>
    /\ IF i = 0
       THEN /\ messagebox' = ShowWarning("Warning", "No safety record selected.")
            /\ safety_read' = NoRow
            /\ UNCHANGED <<safety, safety_tree, summary_vars>>
       ELSE /\ i \in 1..Len(safety_tree)
            /\ safety_read' = ReadRow(safety_tree[i], FALSE)
            /\ safety' = SetStatus(safety, safety_tree[i].id, "Resolved")
            /\ safety_tree' = refresh_safety_table(safety', safety_seq, staff)
            /\ summary_vars' = refresh_dashboard(staff, shifts, safety', inventory, feedback, today)
            /\ messagebox' = ShowInfo("Updated", "Safety concern resolved.")

(***************************************************************************)
(* Feedback tab.                                                           *)
(***************************************************************************)
\* A rating check that only asks for an integer.
RatingAnyInteger(rating_str) == IsIntText(rating_str)

\* rating = int(rating_str); if rating < 1 or rating > 5: raise ValueError
RatingAccepted(rating_str) ==
    IsIntText(rating_str) /\ IntOf(rating_str) >= 1 /\ IntOf(rating_str) <= 5

\* ORDER BY f.feedback_date DESC, then one SELECT name FROM staff per row that
\* has a staff_id.
RECURSIVE FeedbackRows(_, _, _)
FeedbackRows(feedback_, staff_, ids) ==
    IF ids = <<>> THEN <<>>
    ELSE LET id  == ids[Len(ids)]
             row == feedback_[id]
         IN  PutByDateDesc(FeedbackRows(feedback_, staff_, SubSeq(ids, 1, Len(ids) - 1)),
                           [id     |-> id,
                            date   |-> row.feedback_date,
                            staff  |-> IF row.staff_id \in DOMAIN staff_
                                       THEN staff_[row.staff_id].name ELSE "",
                            topic  |-> row.topic,
                            rating |-> row.rating])

refresh_feedback_table(feedback_, seq_, staff_) ==
    FeedbackRows(feedback_, staff_, RowIds(feedback_, seq_))

add_feedback(date_str, staff_sel, topic, rating_str) ==
    /\ Quiet("add_feedback")
    /\ UNCHANGED <<today, training_tree, safety, safety_seq, safety_tree, safety_read>>
    /\ UNCHANGED <<staff_vars, smtp_vars, shift_vars, inv_vars>>
    /\ IF date_str = <<>> \/ topic = "" \/ rating_str = <<>>
       THEN /\ messagebox' = ShowError("Error", "Date, topic and rating are required.")
            /\ UNCHANGED <<feedback, feedback_seq, feedback_tree, summary_vars>>
       ELSE IF ~Parses(date_str)
       THEN /\ messagebox' = ShowError("Error", "Date must be in YYYY-MM-DD format.")
            /\ UNCHANGED <<feedback, feedback_seq, feedback_tree, summary_vars>>
       ELSE IF ~RatingAccepted(rating_str)
       THEN /\ messagebox' = ShowError("Error", "Rating must be an integer between 1 and 5.")
            /\ UNCHANGED <<feedback, feedback_seq, feedback_tree, summary_vars>>
       ELSE IF ~NoStaffChosen(staff_sel) /\ ~IsIntText(SplitHead(staff_sel))
       THEN /\ messagebox' = ShowError("Error", "Invalid staff selection.")
            /\ UNCHANGED <<feedback, feedback_seq, feedback_tree, summary_vars>>
       ELSE /\ feedback_seq < MaxFeedback
            /\ feedback_seq' = feedback_seq + 1
            /\ feedback' = Insert(feedback, feedback_seq,
                                  [feedback_date |-> date_str,
                                   staff_id |-> IF NoStaffChosen(staff_sel) THEN 0
                                                ELSE IntOf(SplitHead(staff_sel)),
                                   topic |-> topic,
                                   rating |-> IntOf(rating_str)])
            /\ feedback_tree' = refresh_feedback_table(feedback', feedback_seq', staff)
            /\ summary_vars' = refresh_dashboard(staff, shifts, safety, inventory, feedback', today)
            /\ messagebox' = ShowInfo("Success", "Feedback submitted.")

(***************************************************************************)
(* Inputs.                                                                 *)
(***************************************************************************)
Day(y, m, d) == [y |-> y, m |-> m, d |-> d]

TodayChoices == {Day(2023, 12, 31), Day(2024, 1, 1)}

\* Certification expiry as typed: none, three dates written YYYY-MM-DD, a date
\* written without its leading zeros, a day that does not exist.
CertExpiryInputs ==
    { <<>>,
      <<"2","0","2","3","-","1","2","-","3","1">>,
      <<"2","0","2","4","-","0","3","-","0","1">>,
      <<"2","0","2","4","-","1","-","1","5">>,
      <<"2","0","2","4","-","0","2","-","3","0">> }

StaffIdentityInputs ==
    { <<"", "ann@h.org">>, <<"Ann", "ann@h.org">>, <<"Bob", "bob@h.org">> }

\* The same, and a form with the email left empty.
StaffFormInputs == StaffIdentityInputs \cup { <<"Ann", "">> }

GoodSettings == <<"smtp.h.org", <<"5","8","7">>, "admin", "secret">>

SettingsInputs == { GoodSettings, <<"smtp.h.org", <<"5","8","x">>, "admin", "secret">> }

ShiftDateInputs ==
    { <<"2","0","2","3","-","1","2","-","3","1">>,
      <<"2","0","2","4","-","0","1","-","0","7">>,
      <<"2","0","2","4","-","0","1","-","0","8">>,
      <<"2","0","2","4","-","1","-","5">>,
      <<"2","0","2","4","-","1","3","-","0","1">> }

ShiftTypeInputs == {"Night"}

StaffSelectionInputs == { <<"1", ":", "x">>, <<"2", ":", "x">>, <<"N">> }

ItemNameInputs == {"Gloves", "Masks"}
QuantityInputs == { <<"5">>, <<"1","0">>, <<"x">> }
ItemExpiryInputs ==
    { <<>>,
      <<"2","0","2","3","-","1","2","-","3","1">>,
      <<"2","0","2","3","-","2","-","1">>,
      <<"2","0","2","4","/","0","1">> }

Init ==
    /\ today \in TodayChoices
    /\ staff = <<>>
    /\ staff_seq = 0
    /\ selected_staff_id = 0
    /\ staff_saved = <<>>
    /\ staff_tree = <<>>
    /\ training_tree = <<>>
    /\ shifts = <<>>
    /\ shift_seq = 0
    /\ shifts_tree = <<>>
    /\ inventory = <<>>
    /\ inv_seq = 0
    /\ inventory_tree = <<>>
    /\ inv_found = 0
    /\ safety = <<>>
    /\ safety_seq = 0
    /\ safety_tree = <<>>
    /\ safety_read = NoRow
    /\ feedback = <<>>
    /\ feedback_seq = 0
    /\ feedback_tree = <<>>
    /\ summary_vars = refresh_dashboard(<<>>, <<>>, <<>>, <<>>, <<>>, today)
    /\ smtp_host = ""
    /\ smtp_port = DefaultSmtpPort
    /\ smtp_user = ""
    /\ smtp_pass = ""
    /\ settings_win = FALSE
    /\ sent_log = <<>>
    /\ batch = <<>>
    /\ messagebox = NoDialog
    /\ last_op = "init"

(***************************************************************************)
(* The staff tab.                                                          *)
(***************************************************************************)
NextStaff ==
    \/ \E who \in StaffFormInputs, e \in CertExpiryInputs :
           save_staff(who[1], who[2], e, <<>>)
    \/ \E i \in 1..MaxStaff : on_staff_select(i)
    \/ clear_staff_form
    \/ \E i \in 0..MaxStaff, confirm \in BOOLEAN : delete_selected_staff(i, confirm)

SpecStaff == Init /\ [][NextStaff]_vars

(***************************************************************************)
(* The staff tab and the training tab, for one member's name.              *)
(***************************************************************************)
NextTraining ==
    \/ \E e \in CertExpiryInputs : save_staff("Ann", "ann@h.org", e, <<>>)
    \/ \E i \in 1..MaxStaff : on_staff_select(i)
    \/ \E i \in 1..MaxStaff : delete_selected_staff(i, TRUE)
    \/ refresh_training_table

SpecTraining == Init /\ [][NextTraining]_vars

(***************************************************************************)
(* Certification reminders over the staff table.                           *)
(***************************************************************************)
NextCertMail ==
    \/ \E who \in StaffIdentityInputs, e \in CertExpiryInputs :
           save_staff(who[1], who[2], e, <<>>)
    \/ \E i \in 1..MaxStaff : delete_selected_staff(i, TRUE)
    \/ \E cfg \in SettingsInputs : save_settings(cfg[1], cfg[2], cfg[3], cfg[4])
    \/ close_settings
    \/ notify_due_certifications

SpecCertMail == Init /\ [][NextCertMail]_vars

(***************************************************************************)
(* Scheduling and shift reminders.                                         *)
(***************************************************************************)
NextShiftMail ==
    \/ \E who \in StaffIdentityInputs : save_staff(who[1], who[2], <<>>, <<>>)
    \/ \E d \in ShiftDateInputs, ty \in ShiftTypeInputs, sel \in StaffSelectionInputs :
           add_shift(d, ty, sel)
    \/ \E i \in 1..MaxShifts : delete_selected_shift(i, TRUE)
    \/ save_settings(GoodSettings[1], GoodSettings[2], GoodSettings[3], GoodSettings[4])
    \/ close_settings
    \/ notify_shifts

SpecShiftMail == Init /\ [][NextShiftMail]_vars

(***************************************************************************)
(* The safety tab.                                                         *)
(***************************************************************************)
ReportDateInputs ==
    { <<>>,
      <<"2","0","2","4","-","0","1","-","0","1">>,
      <<"2","0","2","4","-","0","1","-","0","2">>,
      <<"0","1","/","0","2","/","2","0","2","4">> }   \* not a %Y-%m-%d date

DescriptionInputs == {"", "Spill"}

OptionalStaffInputs == { <<"N","o","n","e">>, <<"1",":","x">>, <<"?">> }

NextSafety ==
    \/ \E d \in ReportDateInputs, sel \in OptionalStaffInputs, desc \in DescriptionInputs :
           add_safety_concern(d, sel, desc)
    \/ \E i \in 0..MaxConcerns : on_safety_select(i)
    \/ \E i \in 0..MaxConcerns : resolve_safety(i)

SpecSafety == Init /\ [][NextSafety]_vars

(***************************************************************************)
(* The five forms that write to the database, each with one input it       *)
(* accepts and the inputs it rejects.                                      *)
(***************************************************************************)
UnpaddedDate == <<"2","0","2","4","-","1","-","5">>
SlashDate == <<"0","1","/","0","2","/","2","0","2","4">>   \* not a %Y-%m-%d date

None == <<"N","o","n","e">>

\* <<name, certification expiry, training due>>
StaffForms ==
    { <<"Ann", UnpaddedDate, <<>>>>, <<"", UnpaddedDate, <<>>>>,
      <<"Ann", SlashDate, <<>>>>, <<"Ann", UnpaddedDate, SlashDate>> }

\* <<date, staff>>
ShiftForms ==
    { <<UnpaddedDate, <<"1",":","x">>>>, <<<<>>, <<"1",":","x">>>>,
      <<SlashDate, <<"1",":","x">>>>, <<UnpaddedDate, <<"?">>>> }

\* <<date, staff, description>>
ConcernForms ==
    { <<UnpaddedDate, None, "Spill">>, <<UnpaddedDate, None, "">>,
      <<SlashDate, None, "Spill">>, <<UnpaddedDate, <<"?">>, "Spill">> }

\* <<name, quantity, expiry>>
ItemForms ==
    { <<"Gloves", <<"5">>, UnpaddedDate>>, <<"Gloves", <<"-","1">>, <<>>>>,
      <<"", <<"5">>, UnpaddedDate>>, <<"Gloves", <<"x">>, UnpaddedDate>>,
      <<"Gloves", <<"5">>, SlashDate>> }

\* <<date, staff, topic, rating>>
FeedbackForms ==
    { <<UnpaddedDate, None, "Care", <<"5">>>>, <<UnpaddedDate, None, "", <<"5">>>>,
      <<SlashDate, None, "Care", <<"5">>>>, <<UnpaddedDate, <<"?">>, "Care", <<"5">>>>,
      <<UnpaddedDate, None, "Care", <<"0">>>>, <<UnpaddedDate, None, "Care", <<"6">>>>,
      <<UnpaddedDate, None, "Care", <<"x">>>> }

NextForms ==
    \/ \E f \in StaffForms : save_staff(f[1], "ann@h.org", f[2], f[3])
    \/ \E f \in ShiftForms : add_shift(f[1], "Night", f[2])
    \/ \E f \in ConcernForms : add_safety_concern(f[1], f[2], f[3])
    \/ \E f \in ItemForms : save_inventory_item(f[1], f[2], <<"5">>, f[3])
    \/ \E f \in FeedbackForms : add_feedback(f[1], f[2], f[3], f[4])

SpecForms == Init /\ [][NextForms]_vars

(***************************************************************************)
(* Both reminders, over one certification date and one shift date.         *)
(***************************************************************************)
MailExpiryInputs == { <<>>, <<"2","0","2","3","-","1","2","-","3","1">> }
MailShiftDate == <<"2","0","2","4","-","0","1","-","0","7">>

NextMail ==
    \/ \E who \in StaffIdentityInputs, e \in MailExpiryInputs :
           save_staff(who[1], who[2], e, <<>>)
    \/ \E sel \in StaffSelectionInputs : add_shift(MailShiftDate, "Night", sel)
    \/ save_settings(GoodSettings[1], GoodSettings[2], GoodSettings[3], GoodSettings[4])
    \/ close_settings
    \/ notify_due_certifications
    \/ notify_shifts

SpecMail == Init /\ [][NextMail]_vars

(***************************************************************************)
(* The inventory tab.                                                      *)
(***************************************************************************)
NextInventory ==
    \/ \E n \in ItemNameInputs, q \in QuantityInputs, m \in QuantityInputs,
          e \in ItemExpiryInputs : save_inventory_item(n, q, m, e)
    \/ \E i \in 0..MaxItems, confirm \in BOOLEAN : delete_inventory_item(i, confirm)

SpecInventory == Init /\ [][NextInventory]_vars

(***************************************************************************)
(* The application started on a healthcare.db that already holds records,  *)
(* some of them written by something other than these forms: SQLite keeps  *)
(* any text in a DATE column.                                              *)
(***************************************************************************)
StoredDateInputs == { NULL, <<"2","0","2","3","-","1","2","-","3","1">>, SlashDate }

ExistingStaffRows ==
    { [name |-> who[1], email |-> who[2], certification_expiry |-> e, training_due |-> NULL] :
          who \in {<<"Ann", "ann@h.org">>}, e \in StoredDateInputs }

ExistingItems ==
    { [item_name |-> "Gloves", quantity |-> q, min_quantity |-> 5, expiry |-> e] :
          q \in {5, 10}, e \in StoredDateInputs }

InitExisting ==
    /\ today \in TodayChoices
    /\ staff \in {<<>>} \cup {<<r>> : r \in ExistingStaffRows}
                       \cup {<<r, q>> : r \in ExistingStaffRows, q \in ExistingStaffRows}
    /\ staff_seq = Len(staff)
    /\ selected_staff_id = 0
    /\ staff_saved = <<>>
    /\ staff_tree = refresh_staff_table(staff, staff_seq, today)
    /\ training_tree = TrainingRows(staff, staff_seq, today)
    /\ shifts = <<>>
    /\ shift_seq = 0
    /\ shifts_tree = <<>>
    /\ inventory \in {<<>>} \cup {<<r>> : r \in ExistingItems}
    /\ inv_seq = Len(inventory)
    /\ inventory_tree = refresh_inventory_table(inventory, inv_seq, today)
    /\ inv_found = 0
    /\ safety = <<>>
    /\ safety_seq = 0
    /\ safety_tree = <<>>
    /\ safety_read = NoRow
    /\ feedback = <<>>
    /\ feedback_seq = 0
    /\ feedback_tree = <<>>
    /\ summary_vars = refresh_dashboard(staff, <<>>, <<>>, inventory, <<>>, today)
    /\ smtp_host = ""
    /\ smtp_port = DefaultSmtpPort
    /\ smtp_user = ""
    /\ smtp_pass = ""
    /\ settings_win = FALSE
    /\ sent_log = <<>>
    /\ batch = <<>>
    /\ messagebox = NoDialog
    /\ last_op = "init"

NextExisting ==
    \/ refresh_training_table
    \/ save_settings(GoodSettings[1], GoodSettings[2], GoodSettings[3], GoodSettings[4])
    \/ close_settings
    \/ notify_due_certifications

SpecExisting == InitExisting /\ [][NextExisting]_vars

(***************************************************************************)
(* The whole application.                                                  *)
(***************************************************************************)


(***************************************************************************)
(* Properties.                                                             *)
(***************************************************************************)
\* Days from today to the date a text holds (negative when it is past).
DaysAhead(text) == ToOrdinal(Strptime(text)) - ToOrdinal(today)

\* The status the rule gives a certification date that is `n` days ahead.
RuleStatus(n) ==
    IF n < 0 THEN "Expired" ELSE IF n <= 60 THEN "Due soon" ELSE "Valid"

\* C1: every staff row and every training row with a certification expiry
\* shows Expired when the expiry is before today, Due soon when it is 0 to 60
\* days ahead (both ends included), and Valid when it is more than 60 days
\* ahead.  The training table is a snapshot, taken on the same day.
C1_CertificationStatus ==
    /\ \A i \in 1..Len(staff_tree) :
          staff_tree[i].expiry # <<>> =>
              staff_tree[i].status = RuleStatus(DaysAhead(staff_tree[i].expiry))
    /\ \A i \in 1..Len(training_tree) :
          training_tree[i].expiry # <<>> =>
              training_tree[i].status = RuleStatus(DaysAhead(training_tree[i].expiry))

\* A certification exactly 60 days ahead shown Due soon in both tables, next
\* to one that is past and shown Expired.
C1_Witness ==
    /\ \E i \in 1..Len(staff_tree) :
          /\ staff_tree[i].expiry # <<>>
          /\ DaysAhead(staff_tree[i].expiry) = 60
          /\ staff_tree[i].status = "Due soon"
    /\ \E i \in 1..Len(staff_tree) :
          /\ staff_tree[i].expiry # <<>>
          /\ DaysAhead(staff_tree[i].expiry) < 0
          /\ staff_tree[i].status = "Expired"
    /\ \E i \in 1..Len(training_tree) :
          /\ training_tree[i].expiry # <<>>
          /\ DaysAhead(training_tree[i].expiry) = 60
          /\ training_tree[i].status = "Due soon"

\* A notify handler got as far as its send loop: it selected something and
\* did not return for want of an SMTP host.
Notifiers == {"notify_due_certifications", "notify_shifts"}

ReachedSendLoop == last_op \in Notifiers /\ batch # <<>> /\ smtp_host # ""

FailedCalls == SelectSeq(sent_log, LAMBDA c : c.result # "ok")

\* C2: once a notify handler starts sending, send_email is called exactly
\* once for every selected row, in selection order, whatever the earlier
\* calls did.
C2_EveryMessageAttempted ==
    ReachedSendLoop =>
        /\ Len(sent_log) = Len(batch)
        /\ \A i \in 1..Len(batch) : sent_log[i].to = batch[i].email

\* Two reminders selected, the first send failed, the second went out.
C2_Witness ==
    /\ ReachedSendLoop
    /\ Len(batch) = 2
    /\ batch[1].email # batch[2].email
    /\ sent_log[1].result # "ok"
    /\ sent_log[2].result = "ok"
    /\ sent_log[2].to = batch[2].email

\* C3: the result a notify handler reports holds the number of messages
\* sent, n less the failed attempts, and the failures as (recipient, reason)
\* in dispatch order.
C3_BatchResult ==
    ReachedSendLoop =>
        /\ "count" \in DOMAIN messagebox
        /\ messagebox.count = Len(batch) - Len(FailedCalls)
        /\ LET reported == IF "errors" \in DOMAIN messagebox
                           THEN messagebox.errors ELSE <<>>
           IN  reported = [i \in 1..Len(FailedCalls) |->
                              <<FailedCalls[i].to, FailedCalls[i].result>>]

StatusDue == {"Due soon", "Expired"}

\* C4: the certifications-due number of the dashboard is the number of staff
\* rows whose certification status is Due soon or Expired.
C4_DashboardCountsDueStaff ==
    summary_vars.cert_due =
        Cardinality({i \in 1..Len(staff_tree) : staff_tree[i].status \in StatusDue})

\* A shift date between today and 7 days ahead, both included, and the
\* shifts of one staff member that have such a date.
InShiftWindow(date) == DaysAhead(date) >= 0 /\ DaysAhead(date) <= 7

WindowShifts(sid) ==
    {k \in DOMAIN shifts :
        shifts[k].staff_id = sid /\ InShiftWindow(shifts[k].shift_date)}

\* notify_shifts ran its query.
RanShiftQuery == last_op = "notify_shifts" /\ smtp_host # ""

\* C5: in every shift reminder the shift lines are in ascending date order.
C5_ShiftLinesAscending ==
    RanShiftQuery =>
        \A r \in 1..Len(batch) :
            \A i, j \in 1..Len(batch[r].shift_info) :
                i < j => DaysAhead(batch[r].shift_info[i].date)
                             <= DaysAhead(batch[r].shift_info[j].date)

\* C6: notify_shifts builds one message for each staff member with a shift
\* in the next 7 days, no other message, and each message lists exactly the
\* shifts of its staff member that are in the window.
C6_OneMessagePerStaffWithShifts ==
    RanShiftQuery =>
        /\ {batch[r].staff_id : r \in 1..Len(batch)} =
               {sid \in DOMAIN staff : WindowShifts(sid) # {}}
        /\ \A r, q \in 1..Len(batch) : batch[r].staff_id = batch[q].staff_id => r = q
        /\ \A r \in 1..Len(batch) :
               LET mine  == WindowShifts(batch[r].staff_id)
                   lines == batch[r].shift_info
               IN  /\ Len(lines) = Cardinality(mine)
                   /\ \A k \in mine :
                          \E i \in 1..Len(lines) :
                              /\ lines[i].date = shifts[k].shift_date
                              /\ lines[i].type = shifts[k].shift_type

\* Nothing to select: no staff member with a due or expired certification,
\* no staff member with a shift in the next 7 days.
NoDueStaff ==
    \A i \in 1..Len(staff_tree) : staff_tree[i].status \notin StatusDue

NoUpcomingShift ==
    \A sid \in DOMAIN staff : WindowShifts(sid) = {}

\* C7: with nothing to select, either notify handler says there is nothing
\* to send and send_email is not called.
C7_EmptySelectionReported ==
    /\ (last_op = "notify_due_certifications" /\ NoDueStaff) =>
           /\ messagebox = ShowInfo("No notifications",
                                         "No staff have certifications due within 60 days.")
           /\ sent_log = <<>>
    /\ (last_op = "notify_shifts" /\ NoUpcomingShift) =>
           /\ messagebox = ShowInfo("No upcoming shifts",
                                         "There are no upcoming shifts within the next week.")
           /\ sent_log = <<>>

\* notify_due_certifications ran to a dialog: it found nothing, or it sent.
CertRemindersDone ==
    last_op = "notify_due_certifications" /\ messagebox # NoDialog

\* C8: the staff notify_due_certifications sends a reminder to are the
\* staff whose certification status is Due soon or Expired: none of them is
\* skipped and no Valid or Unknown one is contacted.
C8_RemindersGoToDueStaff ==
    CertRemindersDone =>
        {batch[i].id : i \in 1..Len(sent_log)} =
            {staff_tree[i].id : i \in {k \in 1..Len(staff_tree) :
                                          staff_tree[k].status \in StatusDue}}

\* C9: an inventory row with an expiry before today is Expired whatever its
\* quantity; otherwise it is Low Stock when quantity <= minimum, else OK.
C9_InventoryStatusPrecedence ==
    \A i \in 1..Len(inventory_tree) :
        LET row == inventory_tree[i]
        IN  row.status =
                IF row.expiry # <<>> /\ DaysAhead(row.expiry) < 0 THEN "Expired"
                ELSE IF row.qty <= row.min THEN "Low Stock"
                ELSE "OK"

\* An expired item at or under its minimum and an expired item above it,
\* both shown Expired, next to an unexpired one shown Low Stock.
C9_Witness ==
    /\ \E i \in 1..Len(inventory_tree) :
          LET row == inventory_tree[i]
          IN  /\ row.expiry # <<>> /\ DaysAhead(row.expiry) < 0
              /\ row.qty <= row.min /\ row.status = "Expired"
    /\ \E i \in 1..Len(inventory_tree) :
          LET row == inventory_tree[i]
          IN  \/ /\ row.expiry # <<>> /\ DaysAhead(row.expiry) < 0
                 /\ row.qty > row.min /\ row.status = "Expired"
              \/ /\ row.expiry = <<>>
                 /\ row.qty <= row.min /\ row.status = "Low Stock"

\* C10: the low-inventory number of the dashboard is the number of
\* inventory rows whose status is not OK.
C10_DashboardCountsInventoryAlerts ==
    summary_vars.low_inventory =
        Cardinality({i \in 1..Len(inventory_tree) : inventory_tree[i].status # "OK"})

\* C11: "Mark Resolved" on a concern that is Resolved leaves it Resolved,
\* and a second double click on a concern, straight after a first one, gives
\* it back the status it had before the first.
C11_ResolveIdempotentToggleInvolutive ==
    [][ /\ (/\ last_op' = "resolve_safety"
            /\ safety_read'.id # 0
            /\ safety[safety_read'.id].status = "Resolved")
           => safety'[safety_read'.id].status = "Resolved"
        /\ (/\ last_op = "on_safety_select"
            /\ last_op' = "on_safety_select"
            /\ safety_read.id # 0
            /\ safety_read'.id = safety_read.id)
           => safety'[safety_read.id].status = safety_read.status ]_vars

\* A concern double clicked twice in a row and Open again, next to a
\* concern that is Resolved.
C11_Witness ==
    /\ last_op = "on_safety_select"
    /\ safety_read.twice
    /\ safety_read.status = "Resolved"
    /\ safety[safety_read.id].status = "Open"
    /\ \E id \in DOMAIN safety : safety[id].status = "Resolved"
\* C12: a concern is Open right after add_safety_concern records it, and
\* whatever is reported, resolved or double clicked, every concern is Open
\* or Resolved.
C12_ConcernStatus ==
    /\ \A id \in DOMAIN safety : safety[id].status \in {"Open", "Resolved"}
    /\ (last_op = "add_safety_concern" /\ messagebox.kind = "showinfo")
           => safety[safety_seq].status = "Open"

\* A concern just recorded, Open, after an earlier one was resolved.
C12_Witness ==
    /\ last_op = "add_safety_concern"
    /\ messagebox.kind = "showinfo"
    /\ safety[safety_seq].status = "Open"
    /\ \E id \in DOMAIN safety : safety[id].status = "Resolved"
\* What the five forms write to.
Repository ==
    <<staff, staff_seq, shifts, shift_seq, safety, safety_seq,
      inventory, inv_seq, feedback, feedback_seq>>

FormHandlers ==
    {"save_staff", "add_shift", "add_safety_concern", "save_inventory_item", "add_feedback"}

Rejected == last_op \in FormHandlers /\ messagebox.kind = "showerror"

\* C13: a step in which save_staff, add_shift, add_safety_concern,
\* save_inventory_item or add_feedback rejects its input leaves every table
\* as it was: nothing is inserted and nothing is updated.
C13_RejectionChangesNothing ==
    [][ Rejected' => Repository' = Repository ]_vars

\* A rating just rejected while every table holds a record.
C13_Witness ==
    /\ Rejected
    /\ last_op = "add_feedback"
    /\ messagebox.message = "Rating must be an integer between 1 and 5."
    /\ DOMAIN staff # {} /\ DOMAIN shifts # {} /\ DOMAIN safety # {}
    /\ DOMAIN inventory # {} /\ DOMAIN feedback # {}
ItemNames == {inventory[id].item_name : id \in DOMAIN inventory}

SavedItem == last_op = "save_inventory_item" /\ messagebox.kind = "showinfo"

\* C14: no two inventory records ever have the same name.  A save adds a
\* record only under a name no record has; under a name a record has, it
\* changes that one record, keeps its name and adds none.
C14_InventoryNamesUnique ==
    [][ /\ \A a, b \in DOMAIN inventory' :
               inventory'[a].item_name = inventory'[b].item_name => a = b
        /\ SavedItem' =>
              IF DOMAIN inventory' = DOMAIN inventory
              THEN \E id \in DOMAIN inventory :
                      /\ inventory'[id].item_name = inventory[id].item_name
                      /\ \A other \in DOMAIN inventory \ {id} :
                             inventory'[other] = inventory[other]
              ELSE /\ DOMAIN inventory' = DOMAIN inventory \cup {inv_seq'}
                   /\ inv_seq' \notin DOMAIN inventory
                   /\ inventory'[inv_seq'].item_name \notin ItemNames
                   /\ \A other \in DOMAIN inventory :
                          inventory'[other] = inventory[other] ]_vars

\* A save that found its name on record, with two records in the table.
C14_Witness ==
    /\ SavedItem
    /\ inv_found # 0
    /\ Cardinality(DOMAIN inventory) = 2
    /\ Cardinality(ItemNames) = 2
\* notify_due_certifications started its loop and ended without its result
\* dialog: an exception left the handler.
CertReminderRaised ==
    /\ last_op = "notify_due_certifications"
    /\ batch # <<>>
    /\ smtp_host # ""
    /\ messagebox = NoDialog

\* The status a table must show for a stored expiry that is absent (N/A) or
\* present and not a date (Unknown).
Classified(stored, status) ==
    /\ stored = <<>> => status = "N/A"
    /\ (stored # <<>> /\ ~Parses(stored)) => status = "Unknown"

\* C15: no operation that classifies a stored certification expiry raises:
\* the staff table and the training table show N/A for an absent expiry and
\* Unknown for one that is not a date, and the certification reminder runs
\* to its result over whatever expiries it selected.
C15_ClassificationNeverRaises ==
    /\ \A i \in 1..Len(staff_tree) :
          Classified(staff_tree[i].expiry, staff_tree[i].status)
    /\ \A i \in 1..Len(training_tree) :
          Classified(training_tree[i].expiry, training_tree[i].status)
    /\ ~CertReminderRaised

\* C16: every inventory row shows one status, and it is OK, Low Stock or
\* Expired, whatever quantity, minimum and expiry are stored.
C16_InventoryStatusIsOneOfThree ==
    \A i \in 1..Len(inventory_tree) :
        inventory_tree[i].status \in {"OK", "Low Stock", "Expired"}
\* YYYY-MM-DD: four digits, two digits and two digits with dashes between,
\* naming a day of the calendar.
IsIsoDateText(t) ==
    /\ Len(t) = 10
    /\ \A i \in {1, 2, 3, 4, 6, 7, 9, 10} : IsDigit(t[i])
    /\ t[5] = "-" /\ t[8] = "-"
    /\ Parses(t)

IsoOrAbsent(t) == t = NULL \/ IsIsoDateText(t)

\* C17: every date the forms have stored is a YYYY-MM-DD text; a date typed
\* in another form, such as without a leading zero, is rejected and never
\* stored.
C17_StoredDatesAreIso ==
    /\ \A id \in DOMAIN staff :
          /\ IsoOrAbsent(staff[id].certification_expiry)
          /\ IsoOrAbsent(staff[id].training_due)
    /\ \A id \in DOMAIN shifts : IsIsoDateText(shifts[id].shift_date)
    /\ \A id \in DOMAIN safety : IsIsoDateText(safety[id].reported_date)
    /\ \A id \in DOMAIN inventory : IsoOrAbsent(inventory[id].expiry)
    /\ \A id \in DOMAIN feedback : IsIsoDateText(feedback[id].feedback_date)

AddedShift == last_op = "add_shift" /\ messagebox.kind = "showinfo"

\* C18: a shift that add_shift has just stored names a staff record that is
\* in the staff table.
C18_NewShiftNamesExistingStaff ==
    AddedShift => shifts[shift_seq].staff_id \in DOMAIN staff

\* C19: every stored inventory item has quantity >= 0 and min_quantity >= 0.
C19_QuantitiesNotNegative ==
    \A id \in DOMAIN inventory :
        inventory[id].quantity >= 0 /\ inventory[id].min_quantity >= 0

\* C20: every stored feedback entry has an integer rating from 1 to 5.
C20_RatingInRange ==
    \A id \in DOMAIN feedback :
        feedback[id].rating \in Int /\ 1 <= feedback[id].rating /\ feedback[id].rating <= 5

\* A rating outside 1..5 just rejected, with a rating of 5 on record.
C20_Witness ==
    /\ last_op = "add_feedback"
    /\ messagebox = ShowError("Error", "Rating must be an integer between 1 and 5.")
    /\ \E id \in DOMAIN feedback : feedback[id].rating = 5
\* C21: after any sequence of staff saves (inserts and edits), selections and
\* deletions, every stored staff record has a non-empty email.
C21_StoredEmailNotEmpty ==
    \A id \in DOMAIN staff : staff[id].email # ""

\* A save with an empty email has just been refused while a record is stored.
C21_Witness ==
    /\ last_op = "save_staff"
    /\ messagebox = ShowError("Error", "Name and Email are required.")
    /\ DOMAIN staff # {}
    /\ C21_StoredEmailNotEmpty
(***************************************************************************)
(* Records that name a staff member, while staff members come and go.      *)
(***************************************************************************)
RosterDate == <<"2","0","2","4","-","0","1","-","0","7">>

FirstStaff == <<"1", ":", "x">>

NextOrphans ==
    \/ save_staff("Ann", "ann@h.org", <<>>, <<>>)
    \/ \E i \in 1..MaxStaff : delete_selected_staff(i, TRUE)
    \/ add_shift(RosterDate, "Night", FirstStaff)
    \/ add_safety_concern(RosterDate, FirstStaff, "Spill")
    \/ add_feedback(RosterDate, FirstStaff, "Care", <<"5">>)
    \/ save_settings(GoodSettings[1], GoodSettings[2], GoodSettings[3], GoodSettings[4])
    \/ close_settings
    \/ notify_shifts

SpecOrphans == Init /\ [][NextOrphans]_vars

StaffDeleted ==
    last_op = "delete_selected_staff" /\ messagebox = ShowInfo("Deleted", "Staff member deleted.")

Orphans(table) == {id \in DOMAIN table : table[id].staff_id \notin DOMAIN staff \cup {0}}

\* C22: a confirmed staff deletion removes exactly one staff record and leaves
\* every shift, safety concern and feedback entry, those that name the
\* deleted staff member included, present and unchanged.
C22_DeleteDoesNotCascade ==
    [][ StaffDeleted' =>
          /\ \E id \in DOMAIN staff :
                /\ DOMAIN staff' = DOMAIN staff \ {id}
                /\ \A k \in DOMAIN staff' : staff'[k] = staff[k]
          /\ shifts' = shifts
          /\ safety' = safety
          /\ feedback' = feedback ]_vars

\* A staff member has just been deleted, and a shift, a concern and a feedback
\* entry still name them.
C22_Witness ==
    /\ StaffDeleted
    /\ 1 \notin DOMAIN staff
    /\ \E k \in DOMAIN shifts : shifts[k].staff_id = 1
    /\ \E k \in DOMAIN safety : safety[k].staff_id = 1
    /\ \E k \in DOMAIN feedback : feedback[k].staff_id = 1
\* The name a listing shows for a record's staff_id.
ShownName(staff_id) == IF staff_id \in DOMAIN staff THEN staff[staff_id].name ELSE ""

\* A view lists every record of its table once, with the staff name to show.
ListsAll(tree, table) ==
    /\ Len(tree) = Cardinality(DOMAIN table)
    /\ \A id \in DOMAIN table :
          \E i \in 1..Len(tree) :
              tree[i].id = id /\ tree[i].staff = ShownName(table[id].staff_id)

Listed(op) == last_op = op /\ messagebox.kind = "showinfo"

\* C23: with records that name a staff id no staff record has, the listings
\* of shifts, safety concerns and feedback run to their end and show every
\* record, with an empty staff name where the staff record is missing; the
\* shift reminders run to their result dialog and leave the missing staff out.
C23_MissingStaffTolerated ==
    /\ Listed("add_shift") => ListsAll(shifts_tree, shifts)
    /\ Listed("add_safety_concern") => ListsAll(safety_tree, safety)
    /\ Listed("add_feedback") => ListsAll(feedback_tree, feedback)
    /\ RanShiftQuery =>
          /\ messagebox.kind \in {"showinfo", "showerror"}
          /\ \A i \in 1..Len(batch) :
                /\ batch[i].staff_id \in DOMAIN staff
                /\ batch[i].name = staff[batch[i].staff_id].name

\* Shift reminders have just been built while a shift, a concern and a
\* feedback entry name a deleted staff member, each listed with an empty name.
C23_Witness ==
    /\ RanShiftQuery
    /\ Orphans(shifts) # {} /\ Orphans(safety) # {} /\ Orphans(feedback) # {}
    /\ \E i \in 1..Len(shifts_tree) : shifts_tree[i].staff = ""
    /\ \E i \in 1..Len(safety_tree) : safety_tree[i].staff = ""
    /\ \E i \in 1..Len(feedback_tree) : feedback_tree[i].staff = ""
    /\ ListsAll(shifts_tree, shifts) /\ ListsAll(safety_tree, safety)
    /\ ListsAll(feedback_tree, feedback)
(***************************************************************************)
(* Every handler that writes to the database, one form entry each.         *)
(***************************************************************************)
\* The rows each table is given in this specification.
DashRows == 1

NextDashboard ==
    \/ staff_seq < DashRows /\ save_staff("Ann", "ann@h.org", <<>>, <<>>)
    \/ \E i \in 1..MaxStaff : delete_selected_staff(i, TRUE)
    \/ shift_seq < DashRows /\ add_shift(RosterDate, "Night", FirstStaff)
    \/ \E i \in 1..MaxShifts : delete_selected_shift(i, TRUE)
    \/ safety_seq < DashRows /\ add_safety_concern(RosterDate, None, "Spill")
    \/ \E i \in 1..MaxConcerns : on_safety_select(i)
    \/ \E i \in 1..MaxConcerns : resolve_safety(i)
    \/ inv_seq < DashRows /\ save_inventory_item("Gloves", <<"5">>, <<"5">>, <<>>)
    \/ \E i \in 1..MaxItems : delete_inventory_item(i, TRUE)
    \/ feedback_seq < DashRows /\ add_feedback(RosterDate, None, "Care", <<"5">>)

\* A session that is run on the first day of 2024.
InitDashboard == Init /\ today = Day(2024, 1, 1)

SpecDashboard == InitDashboard /\ [][NextDashboard]_vars

MutatingHandlers ==
    {"save_staff", "delete_selected_staff", "add_shift", "delete_selected_shift",
     "add_safety_concern", "on_safety_select", "resolve_safety",
     "save_inventory_item", "delete_inventory_item", "add_feedback"}

OpenConcerns == {id \in DOMAIN safety : safety[id].status = "Open"}

\* C24: after every completed mutating operation the dashboard's staff count,
\* open safety concern count and feedback count equal the numbers of staff
\* records, of concerns with status Open and of feedback entries stored.
C24_DashboardCountsMatch ==
    last_op \in MutatingHandlers =>
        /\ summary_vars.staff_count = Cardinality(DOMAIN staff)
        /\ summary_vars.pending_safety = Cardinality(OpenConcerns)
        /\ summary_vars.feedback_count = Cardinality(DOMAIN feedback)

\* A double click has just resolved the one open concern while a staff
\* record and a feedback entry are stored.
C24_Witness ==
    /\ last_op = "on_safety_select"
    /\ safety_read.status = "Open"
    /\ DOMAIN safety # {} /\ OpenConcerns = {}
    /\ summary_vars.pending_safety = 0
    /\ summary_vars.staff_count = 1
    /\ summary_vars.feedback_count = 1
    /\ C24_DashboardCountsMatch
CertReminderBody(i) == sent_log[i].body

\* C25: a certification reminder has the "expired" body exactly when the
\* expiry date is before today; otherwise it has the "will expire in N days"
\* body with N the number of days from today to the expiry date, which is 0
\* when the certification expires today.
C25_ReminderBodyFollowsDaysRemaining ==
    last_op = "notify_due_certifications" =>
        \A i \in 1..Len(sent_log) :
            LET expiry == batch[i].certification_expiry
                n      == DaysAhead(expiry)
            IN  /\ CertReminderBody(i).expiry = expiry
                /\ CertReminderBody(i).text = "expired on" <=> n < 0
                /\ n >= 0 => /\ CertReminderBody(i).text = "will expire in"
                             /\ CertReminderBody(i).days = n
                /\ Strptime(expiry) = today =>
                             /\ CertReminderBody(i).text = "will expire in"
                             /\ CertReminderBody(i).days = 0

\* A reminder has been built for a certification that expires today.
C25_Witness ==
    /\ last_op = "notify_due_certifications"
    /\ \E i \in 1..Len(sent_log) :
          /\ Strptime(batch[i].certification_expiry) = today
          /\ CertReminderBody(i).text = "will expire in"
          /\ CertReminderBody(i).days = 0
SavedStaff == last_op = "save_staff" /\ messagebox = ShowInfo("Success", "Staff information saved.")

\* C26: whenever save_staff accepts its input and reports success, the
\* repository afterwards holds a staff record with the submitted name and
\* email, whatever selections, deletions, clears and saves came before.
C26_SuccessMeansStored ==
    SavedStaff =>
        \E id \in DOMAIN staff :
            staff[id].name = staff_saved.name /\ staff[id].email = staff_saved.email
(***************************************************************************)
(* The settings window filled in completely, without credentials, and with *)
(* a port that is not a number.                                            *)
(***************************************************************************)
HostOnly == <<"smtp.h.org", <<"5","8","7">>, "", "">>

CredentialInputs == SettingsInputs \cup {HostOnly}

NextCredentials ==
    \/ \E e \in MailExpiryInputs : save_staff("Ann", "ann@h.org", e, <<>>)
    \/ add_shift(RosterDate, "Night", FirstStaff)
    \/ \E cfg \in CredentialInputs : save_settings(cfg[1], cfg[2], cfg[3], cfg[4])
    \/ close_settings
    \/ notify_due_certifications
    \/ notify_shifts

SpecCredentials == Init /\ [][NextCredentials]_vars

\* C27: either notify handler attempts send_email only when the SMTP host,
\* the username and the password are all non-empty.
C27_SendNeedsFullSettings ==
    (last_op \in Notifiers /\ sent_log # <<>>) =>
        smtp_host # "" /\ smtp_user # "" /\ smtp_pass # ""

PortRejected ==
    last_op = "save_settings" /\ messagebox = ShowError("Error", "Port must be a number.")

\* C28: a settings save that is rejected because the port is not a number
\* leaves the stored host, port, username and password as they were.
C28_RejectedSettingsUnchanged ==
    [][ PortRejected' => UNCHANGED <<smtp_host, smtp_port, smtp_user, smtp_pass>> ]_vars
(***************************************************************************)
(* Staff and shifts created and deleted, then the reminders.               *)
(***************************************************************************)
\* Inside the 7-day window of one of the two reference dates only.
EdgeDate == <<"2","0","2","4","-","0","1","-","0","8">>

SecondStaff == <<"2", ":", "x">>

NextReminderCount ==
    \/ save_staff("Ann", "ann@h.org", <<>>, <<>>)
    \/ \E i \in 1..MaxStaff : delete_selected_staff(i, TRUE)
    \/ \E sel \in {FirstStaff, SecondStaff} : add_shift(EdgeDate, "Night", sel)
    \/ \E i \in 1..MaxShifts : delete_selected_shift(i, TRUE)
    \/ save_settings(GoodSettings[1], GoodSettings[2], GoodSettings[3], GoodSettings[4])
    \/ close_settings
    \/ notify_shifts

SpecReminderCount == Init /\ [][NextReminderCount]_vars

(***************************************************************************)
(* The application: every handler, every input.                            *)
(***************************************************************************)
Next ==
    \/ NextStaff
    \/ refresh_training_table
    \/ NextCertMail
    \/ NextShiftMail
    \/ NextMail
    \/ NextInventory
    \/ NextSafety
    \/ NextForms
    \/ NextOrphans
    \/ NextDashboard
    \/ NextCredentials
    \/ NextReminderCount

Spec == Init /\ [][Next]_vars

RECURSIVE LinesIn(_)
LinesIn(rows) ==
    IF rows = <<>> THEN 0 ELSE Len(Head(rows).shift_info) + LinesIn(Tail(rows))

\* The shifts the dashboard's query counts whose staff record is missing.
CountedOrphans ==
    {k \in Orphans(shifts) :
        TextBetween(shifts[k].shift_date, IsoFormat(today),
                    IsoFormat(PlusDays(today, DashboardShiftDays)))}

\* C29 as stated: the shift lines of all reminders together are as many as
\* the dashboard's upcoming-shifts count.
C29_LinesEqualDashboardCount ==
    RanShiftQuery => LinesIn(batch) = summary_vars.upcoming_shifts

\* C29, amended: the shift lines of all reminders together are as many as
\* the dashboard's upcoming-shifts count less the counted shifts whose staff
\* record is missing.
C29_LinesEqualCountOfStaffedShifts ==
    RanShiftQuery =>
        LinesIn(batch) = summary_vars.upcoming_shifts - Cardinality(CountedOrphans)

\* Reminders have been built with one line while the dashboard counts two
\* upcoming shifts, one of them of a deleted staff member.
C29_Witness ==
    /\ RanShiftQuery
    /\ LinesIn(batch) = 1
    /\ summary_vars.upcoming_shifts = 2
    /\ Cardinality(CountedOrphans) = 1
    /\ staff_seq = 2 /\ DOMAIN staff = {2}
====
